---- MODULE Spec2Model ----
(***************************************************************************)
(* Model of watcher/watcher.py: the log watcher that keeps a sliding       *)
(* window of access-log records, computes an error rate over it, detects   *)
(* pool failovers and sends rate-limited alerts.                           *)
(*                                                                         *)
(* One action, ProcessRecord, models one call of process_record(data,      *)
(* raw_line) together with the send_alert calls it makes; Tick models the  *)
(* wall clock read by now_ts() advancing between calls.                    *)
(***************************************************************************)
EXTENDS Integers, Sequences, FiniteSets

VARIABLES
    WINDOW_SIZE,            \* watcher.py:28, read once from the environment
    ERROR_RATE_THRESHOLD,   \* watcher.py:27
    ALERT_COOLDOWN_SEC,     \* watcher.py:29
    MAINTENANCE_MODE,       \* watcher.py:30
    ACTIVE_POOL,            \* watcher.py:40, os.environ.get('ACTIVE_POOL')
    window,                 \* watcher.py:37, deque(maxlen=WINDOW_SIZE)
    last_seen_pool,         \* watcher.py:40-42
    last_alert_ts,          \* watcher.py:43, dict alert_type -> timestamp
    now,                    \* the value time.time() returns (watcher.py:46-47)
    ingested,               \* history: the raw lines handed to process_record
    snapshot,               \* total / errors computed by the last call (140, 160)
    calls,                  \* the send_alert calls of the last process_record
    fired                   \* history: every send_alert call that returned True

vars == <<WINDOW_SIZE, ERROR_RATE_THRESHOLD, ALERT_COOLDOWN_SEC, MAINTENANCE_MODE,
          ACTIVE_POOL, window, last_seen_pool, last_alert_ts, now, ingested, snapshot, calls, fired>>

config == <<WINDOW_SIZE, ERROR_RATE_THRESHOLD, ALERT_COOLDOWN_SEC, MAINTENANCE_MODE,
            ACTIVE_POOL>>

(***************************************************************************)
(* Bounds of the model.                                                    *)
(***************************************************************************)
\* Largest clock value explored.
MaxNow == 5
\* Longest clock advance between the two send_alert calls of one record.
MaxDrift == 1
\* Records explored beyond the ones that fill the window.
MaxOverflow == 1
\* The input streams explored are made of at most MaxRuns runs of equal lines.
MaxRuns == 2

(***************************************************************************)
(* Python values.                                                          *)
(***************************************************************************)
\* Python's None where a pool name is expected.
None == "<None>"

\* The sample size below which no error-rate alert is considered.
MinSample == 10

AlertTypes == {"failover", "error_rate"}

\* What the webhook did: no webhook (or no requests module), a 2xx answer,
\* another status, or an exception of requests.post.
PostResults == {"no_webhook", "2xx", "non2xx", "raised"}

\* What the write to the outbox file did, where it was tried.
WriteResults == {"written", "failed"}

\* Lines 64-77 and _write_outbox: where an admitted alert ends up.  Nothing
\* raised on the way leaves send_alert.
Deliver(post, write) ==
    IF post = "2xx" THEN "slack"
    ELSE IF write = "written" THEN "outbox"
    ELSE "lost"

\* What became of an admitted alert: posted to Slack with a 2xx answer,
\* appended to the outbox file, or lost because the outbox write failed too.
DeliveryOutcomes == {Deliver(post, write) : post \in PostResults, write \in WriteResults}

\* dict.get(key, default) on a record used as a dict.
Get(d, key, default) == IF key \in DOMAIN d THEN d[key] ELSE default

Max(a, b) == IF a >= b THEN a ELSE b

Min(a, b) == IF a <= b THEN a ELSE b

(***************************************************************************)
(* Python floats.  error_rate = errors / total * 100 is computed in IEEE   *)
(* 754 binary64: the quotient is rounded to 53 significant bits (round to  *)
(* nearest, ties to even), then the product with 100 is rounded again.     *)
(* Naturals too large for TLC's integers are sequences of bits, most       *)
(* significant first, without leading zeros.                               *)
(***************************************************************************)
\* Bits of the significand of a binary64.
MantBits == 53

Zeros(d) == [i \in 1..d |-> 0]

RECURSIVE Pow2(_)
Pow2(k) == IF k = 0 THEN 1 ELSE 2 * Pow2(k - 1)

\* Big naturals are multiplied limb by limb, twelve bits to a limb.
LimbBase == Pow2(12)

\* 2^k modulo m.
RECURSIVE Pow2Mod(_, _)
Pow2Mod(k, m) == IF k = 0 THEN 1 % m ELSE (2 * Pow2Mod(k - 1, m)) % m

\* The value of a short bit string.
RECURSIVE BitsNat(_)
BitsNat(s) == IF s = <<>> THEN 0 ELSE 2 * BitsNat(SubSeq(s, 1, Len(s) - 1)) + s[Len(s)]

\* The bit string without its leading zeros.
Norm(a) ==
    IF \A i \in 1..Len(a) : a[i] = 0 THEN <<>>
    ELSE LET first == CHOOSE i \in 1..Len(a) : a[i] = 1 /\ \A j \in 1..(i - 1) : a[j] = 0
         IN  SubSeq(a, first, Len(a))

\* The bits of a small natural.
NatBits(n) == Norm([i \in 1..31 |-> (n \div Pow2(31 - i)) % 2])

\* a + 1.
IncBits(a) ==
    IF \A i \in 1..Len(a) : a[i] = 1 THEN <<1>> \o Zeros(Len(a))
    ELSE LET z == CHOOSE i \in 1..Len(a) : a[i] = 0 /\ \A j \in (i + 1)..Len(a) : a[j] = 1
         IN  [i \in 1..Len(a) |-> IF i < z THEN a[i] ELSE IF i = z THEN 1 ELSE 0]

\* The limbs of a bit string, least significant limb first.
Limbs(a) ==
    LET n == (Len(a) + 11) \div 12
        p == Zeros(n * 12 - Len(a)) \o a
    IN  [j \in 1..n |-> BitsNat(SubSeq(p, (n - j) * 12 + 1, (n - j + 1) * 12))]

\* limbs * m + carry, least significant limb first.
RECURSIVE MulLimbs(_, _, _)
MulLimbs(l, m, carry) ==
    IF l = <<>> THEN (IF carry = 0 THEN <<>> ELSE <<carry>>)
    ELSE LET v == Head(l) * m + carry
         IN  <<v % LimbBase>> \o MulLimbs(Tail(l), m, v \div LimbBase)

\* The bit string of a limb sequence.
LimbsBits(l) ==
    LET n == Len(l) * 12
    IN  Norm([i \in 1..n |-> (l[((n - i) \div 12) + 1] \div Pow2((n - i) % 12)) % 2])

\* a * m for a small natural m.
MulBits(a, m) == LimbsBits(MulLimbs(Limbs(a), m, 0))

\* a > b for two normalised bit strings.
GreaterBits(a, b) ==
    \/ Len(a) > Len(b)
    \/ /\ Len(a) = Len(b)
       /\ \E i \in 1..Len(a) : a[i] > b[i] /\ \A j \in 1..(i - 1) : a[j] = b[j]

\* Round a normalised bit string to MantBits significant bits, to nearest and
\* ties to even: the value is mant * 2^shift.
Round53(a) ==
    IF Len(a) <= MantBits THEN [mant |-> a, shift |-> 0]
    ELSE LET hi   == SubSeq(a, 1, MantBits)
             lo   == SubSeq(a, MantBits + 1, Len(a))
             rest == \E i \in 2..Len(lo) : lo[i] = 1
             up   == lo[1] = 1 /\ (rest \/ hi[MantBits] = 1)
         IN  [mant  |-> IF up THEN IncBits(hi) ELSE hi,
              shift |-> Len(a) - MantBits]

\* The first n bits of num / den for den <= num < 2 * den, then one sticky bit
\* telling whether anything non-zero follows.
QuotientBits(num, den, n) ==
    [i \in 1..n |-> ((num * Pow2Mod(i - 1, 2 * den)) % (2 * den)) \div den]
        \o <<IF (num * Pow2Mod(n - 1, den)) % den = 0 THEN 0 ELSE 1>>

\* The least k with den <= num * 2^k, for 0 < num <= den.
RECURSIVE Scale(_, _)
Scale(num, den) == IF num >= den THEN 0 ELSE 1 + Scale(2 * num, den)

\* float(errors) / float(total) for 0 < errors <= total: the value is
\* mant * 2^(shift - exp).
FloatDiv(errors, total) ==
    LET k == Scale(errors, total)
        r == Round53(QuotientBits(errors * Pow2(k), total, MantBits + 1))
    IN  [mant |-> r.mant, shift |-> r.shift, exp |-> MantBits + 1 + k]

\* x * 100 in binary64.
FloatMul100(x) ==
    LET r == Round53(MulBits(x.mant, 100))
    IN  [mant |-> r.mant, shift |-> r.shift + x.shift, exp |-> x.exp]

\* x > thr in binary64, thr a whole number.
FloatGreater(x, thr) ==
    GreaterBits(Norm(x.mant \o Zeros(x.shift)), Norm(NatBits(thr) \o Zeros(x.exp)))

\* (errors / total * 100) > threshold as line 161 and line 197 compute it.
RateAboveFloat(errors, total, threshold) ==
    IF total > 0 /\ errors > 0
    THEN FloatGreater(FloatMul100(FloatDiv(errors, total)), threshold)
    ELSE 0 > threshold

(***************************************************************************)
(* Text.  A string is a sequence of one-character strings, so that         *)
(* str.split, str.strip and int() are computed, not assumed.               *)
(***************************************************************************)
Digits == <<"0", "1", "2", "3", "4", "5", "6", "7", "8", "9">>

IsDigit(c) == \E i \in 1..Len(Digits) : Digits[i] = c

DigitVal(c) == (CHOOSE i \in 1..Len(Digits) : Digits[i] = c) - 1

\* str.split(sep): the pieces between the separators, empty pieces included.
RECURSIVE Split(_, _)
Split(s, sep) ==
    IF \A i \in 1..Len(s) : s[i] # sep THEN <<s>>
    ELSE LET k == CHOOSE i \in 1..Len(s) : s[i] = sep /\ \A j \in 1..(i - 1) : s[j] # sep
         IN  <<SubSeq(s, 1, k - 1)>> \o Split(SubSeq(s, k + 1, Len(s)), sep)

\* str.strip(): without leading and trailing blanks.
Strip(s) ==
    IF \A i \in 1..Len(s) : s[i] = " " THEN <<>>
    ELSE LET a == CHOOSE i \in 1..Len(s) : s[i] # " " /\ \A j \in 1..(i - 1) : s[j] = " "
             b == CHOOSE i \in 1..Len(s) : s[i] # " " /\ \A j \in (i + 1)..Len(s) : s[j] = " "
         IN  SubSeq(s, a, b)

\* Whether int(p) returns (TRUE) or raises ValueError (FALSE) on a stripped p:
\* an optional sign, then decimal digits.
IntParses(p) ==
    LET d == IF p # <<>> /\ p[1] \in {"+", "-"} THEN Tail(p) ELSE p
    IN  d # <<>> /\ \A i \in 1..Len(d) : IsDigit(d[i])

RECURSIVE DigitsVal(_)
DigitsVal(d) ==
    IF d = <<>> THEN 0 ELSE 10 * DigitsVal(SubSeq(d, 1, Len(d) - 1)) + DigitVal(d[Len(d)])

\* int(p) where it parses.
IntOf(p) ==
    IF p[1] = "-" THEN 0 - DigitsVal(Tail(p))
    ELSE IF p[1] = "+" THEN DigitsVal(Tail(p)) ELSE DigitsVal(p)

(***************************************************************************)
(* The lines explored.                                                     *)
(***************************************************************************)
\* The lines of test_runner.py (lines 24-32 and 47), as the fields they hold.
Str200 == <<"2", "0", "0">>

Str500 == <<"5", "0", "0">>

BlueAddr == <<"172.17.0.2:3000">>

GreenAddr == <<"172.17.0.3:3000">>

BlueLine ==
    [json |-> TRUE,
     obj  |-> [status |-> 200, pool |-> "blue", release |-> "blue-1.0.0",
               upstream_status |-> Str200, upstream_addr |-> BlueAddr]]

GreenLine ==
    [json |-> TRUE,
     obj  |-> [status |-> 200, pool |-> "green", release |-> "green-1.0.0",
               upstream_status |-> Str200, upstream_addr |-> GreenAddr]]

ErrLine ==
    [json |-> TRUE,
     obj  |-> [status |-> 500, pool |-> "green", release |-> "green-1.0.0",
               upstream_status |-> Str500, upstream_addr |-> GreenAddr]]

\* A line without a pool whose client status hides an upstream 5xx.
RetriedLine ==
    [json |-> TRUE,
     obj  |-> [status |-> 200, upstream_status |-> Str500 \o <<",", " ">> \o Str200,
               upstream_addr |-> BlueAddr \o <<",", " ">> \o GreenAddr]]

\* A line whose pool field is the empty string (the upstream gave no pool
\* header) and that names no upstream address.
EmptyPoolLine ==
    [json |-> TRUE, obj |-> [status |-> 500, pool |-> "", upstream_status |-> Str500]]

\* The script of test_runner.py (lines 37, 41, 46-48).
TestRunnerScript ==
    <<BlueLine, GreenLine, ErrLine, ErrLine, ErrLine, ErrLine, ErrLine, ErrLine>>

\* The lines of the specification Spec.
Lines == {BlueLine, GreenLine, ErrLine, RetriedLine}

\* The lines of SpecAlerts.
AlertLines == {BlueLine, ErrLine}

\* The lines of SpecRate.
RateLines == {GreenLine, ErrLine}

\* The lines of SpecClassify: every kind of upstream_status field.
UpstreamSamples ==
    {<<>>,
     Str500,
     Str200 \o <<",", "3", "0", "4">>,
     Str200 \o <<",", " ">> \o Str500,
     <<"-", ",", " ", "5", "0", "2">>,
     <<"5", "0", "2", ",", " ", "-">>,
     <<" ", ",">>}

ClassifyLines ==
    {[json |-> TRUE, obj |-> [status |-> s, upstream_status |-> u]] :
        s \in {200, 499, 500}, u \in UpstreamSamples}
    \cup {[json |-> TRUE, obj |-> [status |-> 502]],
          [json |-> TRUE, obj |-> [upstream_status |-> Str500]]}

\* A request that was retried on the same upstream: one address, twice.
SameTwiceLine ==
    [json |-> TRUE,
     obj  |-> [status |-> 502, pool |-> "blue", release |-> "blue-1.0.0",
               upstream_status |-> <<"5", "0", "2", ",", " ", "5", "0", "2">>,
               upstream_addr |-> BlueAddr \o <<",", " ">> \o BlueAddr]]

\* A request that went through five upstreams.
ManyLine ==
    [json |-> TRUE,
     obj  |-> [status |-> 502, pool |-> "green",
               upstream_addr |-> <<"10.0.0.1:80", ",", " ", "10.0.0.2:80", ",", " ",
                                   "10.0.0.3:80", ",", " ", "10.0.0.4:80", ",", " ",
                                   "10.0.0.5:80">>]]

\* A line json.loads rejects (nginx writes \x escapes JSON does not know) and
\* the fields it holds as text.
FallbackLine ==
    [json |-> FALSE,
     obj  |-> [status |-> 500, pool |-> "green", release |-> "green-1.0.0",
               upstream_status |-> Str500, upstream_addr |-> GreenAddr]]

\* The lines of SpecBreakdown.
BreakdownLines == {ErrLine, SameTwiceLine, ManyLine, FallbackLine}

\* The lines of SpecFields: records with and without a pool.
FieldLines == {ErrLine, RetriedLine, EmptyPoolLine}

AllLines ==
    Lines \cup AlertLines \cup RateLines \cup ClassifyLines \cup FieldLines \cup BreakdownLines

(***************************************************************************)
(* parse_line and the fields process_record reads.  A line is              *)
(* [json |-> whether json.loads accepts it, obj |-> the fields it holds].  *)
(***************************************************************************)
\* The keys the fallback regular expressions of parse_line can recover.
FallbackKeys == {"status", "pool", "release", "upstream_addr"}

\* parse_line(line): the parsed object, or the fields the fallback recovers.
\* The empty record stands for None (nothing recovered).
parse_line(line) ==
    IF line.json THEN line.obj
    ELSE [k \in (DOMAIN line.obj) \cap FallbackKeys |-> line.obj[k]]

\* One entry of the window: (status, pool, upstream_status, raw_line); the
\* fifth component, ts, is stored and never read.
Entry(data, raw_line) ==
    [status          |-> Get(data, "status", 0),
     pool            |-> Get(data, "pool", None),
     upstream_status |-> Get(data, "upstream_status", <<>>),
     raw_line        |-> raw_line]

\* Mutant: a full deque refuses the new entry instead of dropping its oldest.
DequeAppendKeepOldest(w, maxlen, entry) == IF Len(w) < maxlen THEN Append(w, entry) ELSE w

\* Mutant: a record without a pool is not kept.
DequeAppendPoolOnly(w, maxlen, entry) ==
    IF maxlen = 0 \/ entry.pool \in {None, ""} THEN w
    ELSE IF Len(w) < maxlen THEN Append(w, entry)
    ELSE Append(Tail(w), entry)

\* deque(maxlen=maxlen).append(entry): the oldest entry leaves a full deque.
DequeAppend(w, maxlen, entry) ==
    IF maxlen = 0 THEN w
    ELSE IF Len(w) < maxlen THEN Append(w, entry)
    ELSE Append(Tail(w), entry)

\* The loop over the parts of upstream_status: True at the first part that is
\* >= 500, left with False by the except clause at the first part int() rejects.
RECURSIVE AnyUpstreamError(_)
AnyUpstreamError(parts) ==
    IF parts = <<>> THEN FALSE
    ELSE IF ~IntParses(Head(parts)) THEN FALSE
    ELSE IF IntOf(Head(parts)) >= 500 THEN TRUE
    ELSE AnyUpstreamError(Tail(parts))

\* parts = [p.strip() for p in str(us).split(',') if p.strip()]
UpstreamParts(us) ==
    LET raw == Split(us, ",")
        kept == SelectSeq(raw, LAMBDA p : Strip(p) # <<>>)
    IN  [i \in 1..Len(kept) |-> Strip(kept[i])]

entry_is_error(entry) ==
    IF entry.status >= 500 THEN TRUE
    ELSE IF entry.upstream_status # <<>> THEN AnyUpstreamError(UpstreamParts(entry.upstream_status))
    ELSE FALSE

\* entry_is_error reads the status and the upstream_status of an entry only;
\* its value on every line explored, computed once.
ErrorKey(entry) == <<entry.status, entry.upstream_status>>

ErrorKeys ==
    UNION {IF entry_is_error(Entry(parse_line(l), l)) THEN {ErrorKey(Entry(parse_line(l), l))}
           ELSE {} : l \in AllLines}

\* errors = sum(1 for entry in window if entry_is_error(entry))
ErrorCount(w) == Cardinality({i \in 1..Len(w) : ErrorKey(w[i]) \in ErrorKeys})

(***************************************************************************)
(* Configurations explored.                                                *)
(***************************************************************************)
\* The window sizes, thresholds and cooldowns the specifications draw from.
WindowSizes == {0, 1, 2, 3, 10, 20}

MaxWindowSize == CHOOSE n \in WindowSizes : \A m \in WindowSizes : m <= n

Thresholds == {20, 55}

\* Every (errors, total, threshold) the comparison of line 197 can meet, and
\* those for which it is true.
RateDomain ==
    {x \in (0..MaxWindowSize) \X (MinSample..MaxWindowSize) \X Thresholds : x[1] <= x[2]}

RateHits == UNION {IF RateAboveFloat(x[1], x[2], x[3]) THEN {x} ELSE {} : x \in RateDomain}

(***************************************************************************)
(* send_alert.                                                             *)
(***************************************************************************)
\* Mutant: the cooldown ends one second early.
InCooldownShort(alert_type, ts, lat) == ts - Get(lat, alert_type, 0) < ALERT_COOLDOWN_SEC - 1

\* Mutant: one cooldown for all kinds, counted from the last alert of any kind.
InCooldownShared(alert_type, ts, lat) ==
    \/ ts < ALERT_COOLDOWN_SEC
    \/ \E k \in DOMAIN lat : ts - lat[k] < ALERT_COOLDOWN_SEC

\* Mutant: the cooldown still holds when exactly ALERT_COOLDOWN_SEC have passed.
InCooldownInclusive(alert_type, ts, lat) == ts - Get(lat, alert_type, 0) <= ALERT_COOLDOWN_SEC

\* ts - last < ALERT_COOLDOWN_SEC, with last = last_alert_ts.get(alert_type, 0).
InCooldown(alert_type, ts, lat) == ts - Get(lat, alert_type, 0) < ALERT_COOLDOWN_SEC

\* Mutant: the maintenance flag is not consulted.
AdmitsInMaintenance(alert_type, ts, lat) == ~InCooldown(alert_type, ts, lat)

\* Whether send_alert returns True.
Admits(alert_type, ts, lat) == ~InCooldown(alert_type, ts, lat) /\ ~MAINTENANCE_MODE

\* last_alert_ts[alert_type] = ts
SetLast(lat, alert_type, ts) ==
    [k \in (DOMAIN lat) \cup {alert_type} |-> IF k = alert_type THEN ts ELSE lat[k]]

\* Mutant: a suppressed attempt restarts the cooldown.
send_alertTouchOnDeny(alert_type, ts, lat, outcome) ==
    IF Admits(alert_type, ts, lat)
    THEN [ret |-> TRUE, last_alert_ts |-> SetLast(lat, alert_type, ts), sink |-> outcome]
    ELSE [ret |-> FALSE, last_alert_ts |-> SetLast(lat, alert_type, ts), sink |-> "none"]

\* Mutant: an alert that reached no sink does not start the cooldown.
send_alertRollback(alert_type, ts, lat, outcome) ==
    IF Admits(alert_type, ts, lat)
    THEN [ret |-> TRUE,
          last_alert_ts |-> IF outcome = "lost" THEN lat ELSE SetLast(lat, alert_type, ts),
          sink |-> outcome]
    ELSE [ret |-> FALSE, last_alert_ts |-> lat, sink |-> "none"]

\* send_alert(alert_type, title, body) at clock value ts with the dict lat:
\* what it returns, the dict afterwards and where the alert went.
send_alert(alert_type, ts, lat, outcome) ==
    IF Admits(alert_type, ts, lat)
    THEN [ret |-> TRUE, last_alert_ts |-> SetLast(lat, alert_type, ts), sink |-> outcome]
    ELSE [ret |-> FALSE, last_alert_ts |-> lat, sink |-> "none"]

(***************************************************************************)
(* process_record.                                                         *)
(***************************************************************************)
\* Mutant: the first pool observed counts as a flip.
IsFlipFromNone(pool, seen) == pool # None /\ pool # "" /\ pool # seen

\* Mutant: last_seen_pool is set by the first observation only.
NextSeenPoolFirstOnly(pool, seen) == IF seen = None /\ pool # None /\ pool # "" THEN pool ELSE seen

\* Mutant: last_seen_pool follows a flip only when alerts are not suppressed.
NextSeenPoolIfAlerting(pool, seen) ==
    IF pool # None /\ pool # "" /\ (seen = None \/ ~MAINTENANCE_MODE) THEN pool ELSE seen

\* The pool flip test of lines 164-168: a pool is given, a pool was seen
\* before, and they differ.
IsFlip(pool, seen) == pool # None /\ pool # "" /\ seen # None /\ pool # seen

\* last_seen_pool after lines 164-193.
NextSeenPool(pool, seen) == IF pool # None /\ pool # "" THEN pool ELSE seen

\* Mutant: no minimum sample size.
RateAlertDueNoMinimum(errors, total) ==
    total > 0 /\ RateAboveFloat(errors, total, ERROR_RATE_THRESHOLD)

\* total >= 10 and error_rate > ERROR_RATE_THRESHOLD
RateAlertDue(errors, total) ==
    total >= MinSample /\ <<errors, total, ERROR_RATE_THRESHOLD>> \in RateHits

\* The addresses listed by an error-rate alert.
TopN == 5

\* d.get('upstream_addr') with d = json.loads(line_text), {} when it raises.
LoadedAddr(line_text) ==
    IF line_text.json THEN Get(line_text.obj, "upstream_addr", <<>>) ELSE <<>>

\* parts = [a.strip() for a in str(addr_field).split(',') if a.strip()], or
\* ['unknown'] for a missing or empty field.
AddrParts(addr_field) ==
    IF addr_field # <<>> THEN UpstreamParts(addr_field) ELSE << <<"unknown">> >>

\* The parts of every line explored, computed once.
LineAddrs == [l \in AllLines |-> AddrParts(LoadedAddr(l))]

\* Every address counted, in the order the loop of lines 201-215 meets them.
RECURSIVE AddrOccurrences(_)
AddrOccurrences(w) ==
    IF w = <<>> THEN <<>>
    ELSE LineAddrs[Head(w).raw_line] \o AddrOccurrences(Tail(w))

\* addrs[a] after the loop.
AddrCount(a, occ) == Cardinality({i \in 1..Len(occ) : occ[i] = a})

\* Counter.most_common(n): the n largest counts first, equal counts in the
\* order their keys were first inserted.
most_common(occ, n) ==
    LET keys == {occ[i] : i \in 1..Len(occ)}
        first(a) == CHOOSE i \in 1..Len(occ) : occ[i] = a /\ \A j \in 1..(i - 1) : occ[j] # a
        before(b, a) ==
            \/ AddrCount(b, occ) > AddrCount(a, occ)
            \/ AddrCount(b, occ) = AddrCount(a, occ) /\ first(b) < first(a)
        rank(a) == Cardinality({b \in keys : before(b, a)})
    IN  [r \in 1..Min(n, Cardinality(keys)) |->
            LET a == CHOOSE k \in keys : rank(k) = r - 1
            IN  [addr |-> a, cnt |-> AddrCount(a, occ)]]

\* top = addrs.most_common(5) over the window (the occurrences are computed
\* once and handed on as a value).
Top(w) ==
    CHOOSE top \in {most_common(occ, TopN) : occ \in {AddrOccurrences(v) : v \in {w}}} : TRUE

\* Mutant: the failover alert reports the window as it was before the insert.
FailoverCallStale(from, to, total, errors, ts, r) ==
    [alert_type |-> "failover", from |-> from, to |-> to, total |-> Max(total - 1, 0),
     errors |-> errors, ts |-> ts, ret |-> r.ret, sink |-> r.sink]

\* The send_alert call made for a failover or an error-rate alert, as a record
\* of what was passed and what came back.
FailoverCall(from, to, total, errors, ts, r) ==
    [alert_type |-> "failover", from |-> from, to |-> to, total |-> total,
     errors |-> errors, ts |-> ts, ret |-> r.ret, sink |-> r.sink]

ErrorRateCall(total, errors, top, ts, r) ==
    [alert_type |-> "error_rate", total |-> total, errors |-> errors, top |-> top,
     ts |-> ts, ret |-> r.ret, sink |-> r.sink]

\* The delivery outcomes of a call: an admitted alert goes somewhere.
Outcomes(made, admitted) == IF made /\ admitted THEN DeliveryOutcomes ELSE {"none"}

\* The admitted calls among cs, as entries of the history.
Admitted(cs) ==
    LET a == SelectSeq(cs, LAMBDA c : c.ret)
    IN  [i \in 1..Len(a) |-> [alert_type |-> a[i].alert_type, ts |-> a[i].ts]]

\* process_record(data, raw_line) with data = parse_line(raw_line).  The clock
\* is read for the failover alert at now and for the error-rate alert dt later.
ProcessRecord(raw_line) ==
    LET data    == parse_line(raw_line)
        entry   == Entry(data, raw_line)
        w       == DequeAppend(window, WINDOW_SIZE, entry)
        total   == Len(w)
        errors  == ErrorCount(w)
        flip    == IsFlip(entry.pool, last_seen_pool)
        due     == RateAlertDue(errors, total)
    IN  /\ data # <<>>
        /\ \E dt \in (IF flip /\ due THEN 0..MaxDrift ELSE {0}) :
           \E o1 \in Outcomes(flip, Admits("failover", now, last_alert_ts)) :
              LET r1   == send_alert("failover", now, last_alert_ts, o1)
                  lat1 == IF flip THEN r1.last_alert_ts ELSE last_alert_ts
                  c1   == IF flip
                          THEN <<FailoverCall(last_seen_pool, entry.pool, total, errors, now, r1)>>
                          ELSE <<>>
              IN  \E o2 \in Outcomes(due, Admits("error_rate", now + dt, lat1)) :
                     LET r2 == send_alert("error_rate", now + dt, lat1, o2)
                         c2 == IF due THEN <<ErrorRateCall(total, errors, Top(w), now + dt, r2)>>
                               ELSE <<>>
                     IN  /\ now + dt <= MaxNow
                         /\ window' = w
                         /\ last_seen_pool' = NextSeenPool(entry.pool, last_seen_pool)
                         /\ last_alert_ts' = IF due THEN r2.last_alert_ts ELSE lat1
                         /\ now' = now + dt
                         /\ ingested' = Append(ingested, raw_line)
                         /\ snapshot' = [total |-> total, errors |-> errors]
                         /\ calls' = c1 \o c2
                         /\ fired' = fired \o Admitted(c1 \o c2)
                         /\ UNCHANGED config

\* The wall clock moves on between two records.
Tick ==
    /\ now < MaxNow
    /\ now' = now + 1
    /\ UNCHANGED <<config, window, last_seen_pool, last_alert_ts, ingested, snapshot, calls, fired>>

(***************************************************************************)
(* Specifications.                                                         *)
(***************************************************************************)
\* The empty dict.
EmptyDict == [k \in {} |-> 0]

\* Mutant: ACTIVE_POOL does not seed last_seen_pool.
ConstructedUnseeded(expected) ==
    /\ ACTIVE_POOL = expected
    /\ window = <<>>
    /\ last_seen_pool = None
    /\ last_alert_ts = EmptyDict
    /\ ingested = <<>>
    /\ snapshot = [total |-> 0, errors |-> 0]
    /\ calls = <<>>
    /\ fired = <<>>

\* Module state after import (lines 24-43); expected is the value of
\* os.environ.get('ACTIVE_POOL'), None when the variable is not set.
Constructed(expected) ==
    /\ ACTIVE_POOL = expected
    /\ window = <<>>
    /\ last_seen_pool = (IF expected = "" THEN None ELSE expected)
    /\ last_alert_ts = EmptyDict
    /\ ingested = <<>>
    /\ snapshot = [total |-> 0, errors |-> 0]
    /\ calls = <<>>
    /\ fired = <<>>

\* The number of runs of equal lines in a stream.
Runs(s) == IF s = <<>> THEN 0 ELSE 1 + Cardinality({i \in 1..(Len(s) - 1) : s[i] # s[i + 1]})

\* The streams explored: a bounded number of records, in a bounded number of runs.
Explored(raw_line) ==
    /\ Len(ingested) < WINDOW_SIZE + MaxOverflow
    /\ Runs(Append(ingested, raw_line)) <= MaxRuns

Init ==
    /\ WINDOW_SIZE \in {0, 2, 3}
    /\ ERROR_RATE_THRESHOLD = 20
    /\ ALERT_COOLDOWN_SEC = 2
    /\ MAINTENANCE_MODE \in BOOLEAN
    /\ now = 0
    /\ \E expected \in {None, "", "blue"} : Constructed(expected)

Next ==
    \/ \E raw_line \in Lines : Explored(raw_line) /\ ProcessRecord(raw_line)
    \/ Tick

Spec == Init /\ [][Next]_vars

InitAlerts ==
    /\ WINDOW_SIZE = 10
    /\ ERROR_RATE_THRESHOLD = 20
    /\ ALERT_COOLDOWN_SEC = 2
    /\ MAINTENANCE_MODE \in BOOLEAN
    /\ now = 0
    /\ \E expected \in {None, "blue"} : Constructed(expected)

NextAlerts ==
    \/ \E raw_line \in AlertLines : Explored(raw_line) /\ ProcessRecord(raw_line)
    \/ Tick

SpecAlerts == InitAlerts /\ [][NextAlerts]_vars

\* test_runner.py: the configuration of lines 8-14, then the lines of its
\* script one after the other.  Its wall clock is past the first second of 1970.
InitTestRunner ==
    /\ WINDOW_SIZE = 10
    /\ ERROR_RATE_THRESHOLD = 20
    /\ ALERT_COOLDOWN_SEC = 1
    /\ MAINTENANCE_MODE = FALSE
    /\ now \in 1..MaxNow
    /\ Constructed("blue")

NextTestRunner ==
    \/ /\ Len(ingested) < Len(TestRunnerScript)
       /\ ProcessRecord(TestRunnerScript[Len(ingested) + 1])
    \/ Tick

SpecTestRunner == InitTestRunner /\ [][NextTestRunner]_vars

InitRate ==
    /\ WINDOW_SIZE = 20
    /\ ERROR_RATE_THRESHOLD = 55
    /\ ALERT_COOLDOWN_SEC = 2
    /\ MAINTENANCE_MODE = FALSE
    /\ now = 0
    /\ Constructed(None)

NextRate ==
    \/ \E raw_line \in RateLines : Explored(raw_line) /\ ProcessRecord(raw_line)
    \/ Tick

SpecRate == InitRate /\ [][NextRate]_vars

InitClassify ==
    /\ WINDOW_SIZE \in {1, 2}
    /\ ERROR_RATE_THRESHOLD = 20
    /\ ALERT_COOLDOWN_SEC = 2
    /\ MAINTENANCE_MODE = FALSE
    /\ now = 0
    /\ Constructed(None)

NextClassify ==
    \/ \E raw_line \in ClassifyLines : Explored(raw_line) /\ ProcessRecord(raw_line)
    \/ Tick

SpecClassify == InitClassify /\ [][NextClassify]_vars

InitFields ==
    /\ WINDOW_SIZE = 10
    /\ ERROR_RATE_THRESHOLD = 20
    /\ ALERT_COOLDOWN_SEC = 2
    /\ MAINTENANCE_MODE = FALSE
    /\ now = 0
    /\ Constructed(None)

NextFields ==
    \/ \E raw_line \in FieldLines : Explored(raw_line) /\ ProcessRecord(raw_line)
    \/ Tick

SpecFields == InitFields /\ [][NextFields]_vars

\* Streams whose records name zero, one or several upstream addresses.
InitBreakdown ==
    /\ WINDOW_SIZE = 10
    /\ ERROR_RATE_THRESHOLD = 20
    /\ ALERT_COOLDOWN_SEC = 2
    /\ MAINTENANCE_MODE = FALSE
    /\ now = 0
    /\ Constructed(None)

NextBreakdown ==
    \/ \E raw_line \in BreakdownLines : Explored(raw_line) /\ ProcessRecord(raw_line)
    \/ Tick

SpecBreakdown == InitBreakdown /\ [][NextBreakdown]_vars

\* Windows smaller than the minimum sample size.
InitSmall ==
    /\ WINDOW_SIZE \in {5, 9}
    /\ ERROR_RATE_THRESHOLD = 20
    /\ ALERT_COOLDOWN_SEC = 2
    /\ MAINTENANCE_MODE = FALSE
    /\ now = 0
    /\ Constructed(None)

NextSmall ==
    \/ \E raw_line \in AlertLines : Explored(raw_line) /\ ProcessRecord(raw_line)
    \/ Tick

SpecSmall == InitSmall /\ [][NextSmall]_vars

\* A stream in which every record is an error and records keep arriving while
\* the clock advances: by clock value now at most WINDOW_SIZE + MaxOverflow *
\* (now + 1) records have arrived.  tail_file hands every line that arrives to
\* process_record, and the clock advances by itself.
InitLive ==
    /\ WINDOW_SIZE = 10
    /\ ERROR_RATE_THRESHOLD = 20
    /\ ALERT_COOLDOWN_SEC = 2
    /\ MAINTENANCE_MODE = FALSE
    /\ now = 0
    /\ Constructed(None)

IngestLive ==
    /\ Len(ingested) < WINDOW_SIZE + MaxOverflow * (now + 1)
    /\ ProcessRecord(ErrLine)

NextLive ==
    \/ IngestLive
    \/ Tick

SpecLive == InitLive /\ [][NextLive]_vars /\ WF_vars(IngestLive) /\ WF_vars(Tick)

(***************************************************************************)
(* Properties.                                                             *)
(***************************************************************************)
\* The calls of the last process_record for one kind of alert.
CallsOf(kind) == SelectSeq(calls, LAMBDA c : c.alert_type = kind)

\* The admitted alerts of one kind, oldest first.
FiredOf(kind) == SelectSeq(fired, LAMBDA f : f.alert_type = kind)

\* The admitted alerts of the kind of c that came before the call c of the last
\* process_record (which, if admitted, is the newest of its kind).
PriorFired(c) ==
    LET f == FiredOf(c.alert_type)
    IN  IF c.ret THEN SubSeq(f, 1, Len(f) - 1) ELSE f

\* Whether the cooldown allows the call c: its kind never fired before, or
\* fired at least ALERT_COOLDOWN_SEC earlier.
CooldownAllows(c) ==
    LET f == PriorFired(c)
    IN  f = <<>> \/ c.ts - f[Len(f)].ts >= ALERT_COOLDOWN_SEC

\* The pool a line carries, None when it carries none.
PoolOf(l) == LET p == Entry(parse_line(l), l).pool IN IF p = "" THEN None ELSE p

\* The pool of the newest line of s that carries one, else the pool given.
RECURSIVE LastPool(_, _)
LastPool(s, seed) ==
    IF s = <<>> THEN seed
    ELSE IF PoolOf(s[Len(s)]) # None THEN PoolOf(s[Len(s)])
    ELSE LastPool(SubSeq(s, 1, Len(s) - 1), seed)

\* The expected pool of the configuration, None when unset or empty.
ExpectedPool == IF ACTIVE_POOL = "" THEN None ELSE ACTIVE_POOL

\* A step that is one process_record call.
IsIngest == Len(ingested') = Len(ingested) + 1

\* C1: after the script of test_runner.py (blue/200, green/200, six
\* green/500) exactly one error_rate alert has been admitted.
C1_OneErrorRateAlert ==
    Len(ingested) = Len(TestRunnerScript) => Len(FiredOf("error_rate")) = 1

\* C2: in the script of test_runner.py the blue/200 record makes no failover
\* alert, the green/200 record makes exactly one, admitted, from blue to green,
\* the six records after it make none, and last_seen_pool ends as green.
C2_FailoverScenario ==
    LET k  == Len(ingested)
        fo == CallsOf("failover")
    IN  /\ k = 1 => fo = <<>> /\ FiredOf("failover") = <<>>
        /\ k = 2 => Len(fo) = 1 /\ fo[1].ret /\ fo[1].from = "blue" /\ fo[1].to = "green"
        /\ k > 2 => fo = <<>>
        /\ k >= 2 => last_seen_pool = "green" /\ Len(FiredOf("failover")) = 1

C2_Witness ==
    /\ Len(ingested) = Len(TestRunnerScript)
    /\ Len(FiredOf("failover")) = 1
    /\ last_seen_pool = "green"

\* C3: two admitted alerts of one kind are at least ALERT_COOLDOWN_SEC apart;
\* a record that triggers an alert within the cooldown of the last admitted
\* alert of its kind is denied, one that triggers it later is admitted.
C3_CooldownSafety ==
    /\ \A i, j \in 1..Len(fired) :
          i < j /\ fired[i].alert_type = fired[j].alert_type
             => fired[j].ts - fired[i].ts >= ALERT_COOLDOWN_SEC
    /\ \A n \in 1..Len(calls) :
          ~MAINTENANCE_MODE /\ PriorFired(calls[n]) # <<>>
             => (calls[n].ret <=> CooldownAllows(calls[n]))

C3_Witness ==
    /\ Len(FiredOf("error_rate")) = 2
    /\ \E n \in 1..Len(calls) : calls[n].alert_type = "error_rate" /\ calls[n].ret

\* C4: with maintenance off, send_alert returns True and records the time
\* whenever the kind never fired (whatever the clock says) or fired at least
\* ALERT_COOLDOWN_SEC ago.
C4_AdmittedWhenAllowed ==
    ~MAINTENANCE_MODE =>
        \A n \in 1..Len(calls) :
            CooldownAllows(calls[n])
               => /\ calls[n].ret
                  /\ calls[n].alert_type \in DOMAIN last_alert_ts
                  /\ last_alert_ts[calls[n].alert_type] = calls[n].ts

\* C5: with the maintenance flag set no alert of any kind is ever admitted or
\* handed to a sink.
C5_MaintenanceSuppression ==
    MAINTENANCE_MODE =>
        /\ fired = <<>>
        /\ last_alert_ts = EmptyDict
        /\ \A n \in 1..Len(calls) : ~calls[n].ret /\ calls[n].sink = "none"

C5_Witness ==
    /\ MAINTENANCE_MODE
    /\ \E n \in 1..Len(calls) :
          calls[n].alert_type = "failover" /\ calls[n].ts >= ALERT_COOLDOWN_SEC
    /\ \E n \in 1..Len(calls) :
          calls[n].alert_type = "error_rate" /\ calls[n].ts >= ALERT_COOLDOWN_SEC

\* C6: after k process_record calls the window holds the last min(k, N) records
\* ingested, oldest first; its size never exceeds N and never decreases.
WindowHoldsLast ==
    LET k == Len(ingested)
        m == Min(k, WINDOW_SIZE)
    IN  /\ Len(window) = m
        /\ Len(window) <= WINDOW_SIZE
        /\ \A i \in 1..m :
              window[i] = Entry(parse_line(ingested[k - m + i]), ingested[k - m + i])

C6_WindowBound == []WindowHoldsLast /\ [][Len(window') >= Len(window)]_vars

C6_Witness ==
    /\ WINDOW_SIZE = 3
    /\ Len(ingested) > WINDOW_SIZE
    /\ window[1] # window[3]

\* C7: a window entry counts as an error exactly when its status is >= 500 or
\* some value of its upstream_status field is >= 500, and the error count is
\* the number of such entries in the window.
HasUpstream5xx(us) ==
    \E n \in 1..Len(UpstreamParts(us)) :
        IntParses(UpstreamParts(us)[n]) /\ IntOf(UpstreamParts(us)[n]) >= 500

IsErrorAsClaimed(entry) == entry.status >= 500 \/ HasUpstream5xx(entry.upstream_status)

C7_ErrorClassification ==
    /\ \A i \in 1..Len(window) : entry_is_error(window[i]) <=> IsErrorAsClaimed(window[i])
    /\ Len(ingested) > 0 =>
          snapshot.errors = Cardinality({i \in 1..Len(window) : IsErrorAsClaimed(window[i])})

\* C8: an error_rate alert is attempted on an ingest exactly when the window
\* then holds at least 10 records and errors / size * 100 is strictly above
\* the threshold; a rate equal to the threshold does not trigger.
C8_ErrorRateThreshold ==
    Len(ingested) > 0 =>
        /\ Len(CallsOf("error_rate")) <= 1
        /\ CallsOf("error_rate") # <<>>
              <=> /\ snapshot.total >= MinSample
                  /\ 100 * snapshot.errors > ERROR_RATE_THRESHOLD * snapshot.total

\* C9: with no expected pool, the first record that carries a pool p makes no
\* failover event and sets last_seen_pool to p; a later record carrying a pool
\* q other than the pool seen last, p, makes exactly one failover event from p
\* to q.
C9_FirstObservation ==
    [][IsIngest /\ ExpectedPool = None =>
        LET q    == PoolOf(ingested'[Len(ingested')])
            seen == LastPool(ingested, None)
            fo   == SelectSeq(calls', LAMBDA c : c.alert_type = "failover")
        IN  /\ seen = None /\ q # None => fo = <<>> /\ last_seen_pool' = q
            /\ seen # None /\ q # None /\ q # seen
                  => Len(fo) = 1 /\ fo[1].from = seen /\ fo[1].to = q]_vars

C9_Witness ==
    /\ ExpectedPool = None
    /\ ingested = <<BlueLine, GreenLine>>
    /\ Len(CallsOf("failover")) = 1
    /\ CallsOf("failover")[1].from = "blue"
    /\ CallsOf("failover")[1].to = "green"

\* C10: with the expected pool set to p, a record with pool p that no record
\* of another pool precedes makes no failover event, and the first record with
\* a pool q other than p makes a failover event from p to q at once, even as
\* the very first record.
C10_ExpectedPoolSeeding ==
    [][IsIngest /\ ExpectedPool # None /\ LastPool(ingested, ExpectedPool) = ExpectedPool
          /\ (\A i \in 1..Len(ingested) : PoolOf(ingested[i]) \in {None, ExpectedPool}) =>
        LET q  == PoolOf(ingested'[Len(ingested')])
            fo == SelectSeq(calls', LAMBDA c : c.alert_type = "failover")
        IN  /\ q = ExpectedPool => fo = <<>>
            /\ q # None /\ q # ExpectedPool
                  => Len(fo) = 1 /\ fo[1].from = ExpectedPool /\ fo[1].to = q]_vars

C10_Witness ==
    /\ ExpectedPool = "blue"
    /\ Len(ingested) = 1
    /\ Len(CallsOf("failover")) = 1
    /\ CallsOf("failover")[1].from = "blue"
    /\ CallsOf("failover")[1].to = "green"

\* C11: after a record with a non-empty pool p last_seen_pool is p, whether
\* the failover alert was admitted or suppressed; a record showing a new pool
\* makes exactly one failover attempt and a record showing the pool seen last
\* makes none, even when that attempt was suppressed.
C11_UnconditionalPoolUpdate ==
    [][IsIngest /\ PoolOf(ingested'[Len(ingested')]) # None =>
        LET p  == PoolOf(ingested'[Len(ingested')])
            fo == SelectSeq(calls', LAMBDA c : c.alert_type = "failover")
        IN  /\ last_seen_pool' = p
            /\ last_seen_pool = p => fo = <<>>
            /\ last_seen_pool # None /\ last_seen_pool # p
                  => Len(fo) = 1 /\ fo[1].from = last_seen_pool /\ fo[1].to = p]_vars

\* A second record of the new pool after a suppressed failover attempt.
C11_Witness ==
    /\ ACTIVE_POOL = "blue"
    /\ Len(ingested) >= 2
    /\ \A i \in 1..Len(ingested) : PoolOf(ingested[i]) = "green"
    /\ last_seen_pool = "green"
    /\ FiredOf("failover") = <<>>
    /\ CallsOf("failover") = <<>>

\* C12: a send_alert call that passes the cooldown and maintenance tests
\* returns True and sets last_alert_ts of its kind to the time it read,
\* wherever the alert ended up: Slack, the outbox, or nowhere.
C12_DeliveryFailureConsumesCooldown ==
    [][IsIngest =>
        \A n \in 1..Len(calls') :
            LET c == calls'[n]
            IN  ~MAINTENANCE_MODE
                   /\ c.ts - Get(last_alert_ts, c.alert_type, 0) >= ALERT_COOLDOWN_SEC
                => /\ c.ret
                   /\ c.sink \in DeliveryOutcomes
                   /\ c.alert_type \in DOMAIN last_alert_ts'
                   /\ last_alert_ts'[c.alert_type] = c.ts]_vars

\* An admitted alert that was lost (no 2xx answer, outbox write failed) and
\* started the cooldown all the same.
C12_Witness ==
    \E n \in 1..Len(calls) :
        /\ calls[n].ret
        /\ calls[n].sink = Deliver("raised", "failed")
        /\ calls[n].alert_type \in DOMAIN last_alert_ts
        /\ last_alert_ts[calls[n].alert_type] = calls[n].ts

\* C13: a record whose pool is absent or empty leaves last_seen_pool alone
\* and makes no failover attempt, yet it enters the window, is counted in
\* total and errors, and the error-rate test is made on those counts.
C13_AbsentPoolIsNoObservation ==
    [][IsIngest /\ PoolOf(ingested'[Len(ingested')]) = None =>
        LET l == ingested'[Len(ingested')]
        IN  /\ last_seen_pool' = last_seen_pool
            /\ SelectSeq(calls', LAMBDA c : c.alert_type = "failover") = <<>>
            /\ Len(window') = Min(Len(window) + 1, WINDOW_SIZE)
            /\ WINDOW_SIZE > 0 => window'[Len(window')] = Entry(parse_line(l), l)
            /\ snapshot'.total = Len(window')
            /\ snapshot'.errors = ErrorCount(window')
            /\ SelectSeq(calls', LAMBDA c : c.alert_type = "error_rate") # <<>>
                   <=> /\ Len(window') >= MinSample
                       /\ <<ErrorCount(window'), Len(window'), ERROR_RATE_THRESHOLD>> \in RateHits]_vars

\* A record with an empty pool, after records of the green pool, that
\* completes the sample and triggers the error-rate alert.
C13_Witness ==
    /\ Len(ingested) >= MinSample
    /\ ingested[Len(ingested)] = EmptyPoolLine
    /\ ingested[1] = ErrLine
    /\ last_seen_pool = "green"
    /\ window[Len(window)].pool = ""
    /\ CallsOf("failover") = <<>>
    /\ Len(CallsOf("error_rate")) = 1

\* C14: one process_record call makes at most one failover attempt and at
\* most one error_rate attempt, the failover attempt first, and both report
\* the window size and error count computed after the record was inserted.
C14_PerRecordOrdering ==
    /\ Len(calls) <= 2
    /\ Len(CallsOf("failover")) <= 1
    /\ Len(CallsOf("error_rate")) <= 1
    /\ Len(calls) = 2 =>
          /\ calls[1].alert_type = "failover"
          /\ calls[2].alert_type = "error_rate"
          /\ calls[1].ts <= calls[2].ts
    /\ calls # <<>> =>
          /\ Len(ingested) > 0
          /\ window # <<>>
          /\ window[Len(window)]
                = Entry(parse_line(ingested[Len(ingested)]), ingested[Len(ingested)])
          /\ \A n \in 1..Len(calls) :
                calls[n].total = Len(window) /\ calls[n].errors = ErrorCount(window)

\* One record that made both attempts, the clock moving between them.
C14_Witness ==
    /\ Len(calls) = 2
    /\ calls[1].ts < calls[2].ts
    /\ calls[1].total = WINDOW_SIZE
    /\ calls[2].total = WINDOW_SIZE

\* The time of the last admitted error_rate alert.
LastErrorRateTs == FiredOf("error_rate")[Len(FiredOf("error_rate"))].ts

\* C15: with maintenance off and every record triggering the error-rate
\* alert, after each admitted error_rate alert another one is eventually
\* admitted (as long as the clock explored reaches the end of the cooldown):
\* a triggering record is admitted exactly when it comes ALERT_COOLDOWN_SEC or
\* more after the last admission, and an alert enters the admitted ones only
\* in the step of the record that triggered it, never later by itself.
C15_AnotherChanceAfterCooldown ==
    /\ \A k \in 1..(MaxNow + 1) :
          (Len(FiredOf("error_rate")) = k /\ LastErrorRateTs + ALERT_COOLDOWN_SEC <= MaxNow)
             ~> (Len(FiredOf("error_rate")) > k)
    /\ [][IsIngest /\ FiredOf("error_rate") # <<>> =>
            \A n \in 1..Len(calls') :
               calls'[n].alert_type = "error_rate"
                  => (calls'[n].ret <=> calls'[n].ts - LastErrorRateTs >= ALERT_COOLDOWN_SEC)]_vars
    /\ [][fired' # fired =>
            /\ IsIngest
            /\ fired' = fired \o Admitted(calls')
            /\ \A n \in 1..Len(calls') : ~calls'[n].ret => calls'[n].sink = "none"]_vars

\* Two admitted error_rate alerts, one cooldown apart, with suppressed attempts
\* besides them.
C15_Witness ==
    /\ Len(FiredOf("error_rate")) = 2
    /\ Len(ingested) - (MinSample - 1) > 3
    /\ LastErrorRateTs - FiredOf("error_rate")[1].ts = ALERT_COOLDOWN_SEC

\* C16: a send_alert call that returns False leaves last_alert_ts as it was
\* for every kind and delivers nothing: after a record, last_alert_ts differs
\* from before only at the kinds of the calls that returned True.
C16_DeniedChangesNothing ==
    [][IsIngest =>
        /\ \A n \in 1..Len(calls') : ~calls'[n].ret => calls'[n].sink = "none"
        /\ \A kind \in AlertTypes :
              LET adm == SelectSeq(calls', LAMBDA c : c.alert_type = kind /\ c.ret)
              IN  IF adm # <<>>
                  THEN kind \in DOMAIN last_alert_ts' /\ last_alert_ts'[kind] = adm[1].ts
                  ELSE /\ kind \in DOMAIN last_alert_ts' <=> kind \in DOMAIN last_alert_ts
                       /\ Get(last_alert_ts', kind, 0) = Get(last_alert_ts, kind, 0)
        /\ DOMAIN last_alert_ts' \subseteq AlertTypes]_vars

\* An error_rate attempt suppressed by the cooldown after an admitted one: the
\* time recorded is still that of the admitted alert.
C16_Witness ==
    /\ ~MAINTENANCE_MODE
    /\ Len(FiredOf("error_rate")) = 1
    /\ \E n \in 1..Len(calls) :
          /\ calls[n].alert_type = "error_rate"
          /\ ~calls[n].ret
          /\ calls[n].ts > FiredOf("error_rate")[1].ts
          /\ last_alert_ts["error_rate"] = FiredOf("error_rate")[1].ts

\* C17: the cooldowns of the two kinds are independent: whether a call is
\* admitted depends on the admitted alerts of its own kind only (the time of
\* the last one, 0 when there is none, as line 53 reads it), and an admitted
\* alert changes last_alert_ts at its own kind only; one record can have both
\* its failover and its error_rate alert admitted.
C17_IndependentCooldowns ==
    [][IsIngest /\ ~MAINTENANCE_MODE =>
        /\ \A n \in 1..Len(calls') :
              LET c    == calls'[n]
                  own  == FiredOf(c.alert_type)
                  last == IF own = <<>> THEN 0 ELSE own[Len(own)].ts
              IN  c.ret <=> c.ts - last >= ALERT_COOLDOWN_SEC
        /\ \A kind \in AlertTypes :
              (\A n \in 1..Len(calls') : calls'[n].alert_type = kind => ~calls'[n].ret)
                 => Get(last_alert_ts', kind, 0) = Get(last_alert_ts, kind, 0)]_vars

\* One record whose failover and error_rate alerts were both admitted, the
\* second while the first had just fired.
C17_Witness ==
    /\ Len(calls) = 2
    /\ calls[1].ret
    /\ calls[2].ret
    /\ calls[2].ts - calls[1].ts < ALERT_COOLDOWN_SEC
    /\ last_alert_ts["failover"] = calls[1].ts
    /\ last_alert_ts["error_rate"] = calls[2].ts

\* C18: with a window capacity below the minimum sample size of 10 no
\* error_rate attempt is ever made, whatever the records and the error rate:
\* the window size computed never reaches 10.
C18_SmallWindowNeverAlerts ==
    WINDOW_SIZE < MinSample =>
        /\ snapshot.total < MinSample
        /\ CallsOf("error_rate") = <<>>
        /\ FiredOf("error_rate") = <<>>
        /\ "error_rate" \notin DOMAIN last_alert_ts

\* Ten error records through a window of nine: all nine entries are errors.
C18_Witness ==
    /\ WINDOW_SIZE = 9
    /\ Len(ingested) = MinSample
    /\ \A i \in 1..Len(ingested) : ingested[i] = ErrLine
    /\ snapshot = [total |-> 9, errors |-> 9]

\* The parts joined again with the separator between them.
RECURSIVE Join(_, _)
Join(parts, sep) ==
    IF parts = <<>> THEN <<>>
    ELSE IF Len(parts) = 1 THEN parts[1]
    ELSE parts[1] \o <<sep>> \o Join(Tail(parts), sep)

\* The orders in which n parts can be written.
Orders(n) == {f \in [1..n -> 1..n] : \A a, b \in 1..n : f[a] = f[b] => a = b}

\* The entry with the parts of its upstream_status field written in order f.
Reordered(entry, f) ==
    LET parts == Split(entry.upstream_status, ",")
    IN  [entry EXCEPT !.upstream_status = Join([k \in 1..Len(parts) |-> parts[f[k]]], ",")]

\* C19: entry_is_error gives the same result for every order of the
\* comma-separated parts of upstream_status, lists that mix numeric codes with
\* non-numeric placeholders included.
C19_OrderIndependence ==
    \A i \in 1..Len(window) :
        \A f \in Orders(Len(Split(window[i].upstream_status, ","))) :
            entry_is_error(Reordered(window[i], f)) <=> entry_is_error(window[i])

\* The addresses a window entry names: the parts of the upstream_addr field
\* of its record, or unknown when the record has none.
NamedBy(entry) ==
    LET parts == AddrParts(Get(parse_line(entry.raw_line), "upstream_addr", <<>>))
    IN  {parts[k] : k \in 1..Len(parts)}

\* C20: in the breakdown of an error_rate alert the count of each address is
\* the number of records of the current window that name it, at most 5
\* addresses are listed, and the counts do not increase down the list.
C20_UpstreamBreakdown ==
    \A n \in 1..Len(calls) :
        calls[n].alert_type = "error_rate" =>
            LET top == calls[n].top
            IN  /\ Len(top) <= TopN
                /\ \A r \in 1..(Len(top) - 1) : top[r].cnt >= top[r + 1].cnt
                /\ \A r \in 1..Len(top) :
                      top[r].cnt
                        = Cardinality({i \in 1..Len(window) : top[r].addr \in NamedBy(window[i])})

====
